---------------------------- MODULE Spec2Model ----------------------------
(***************************************************************************)
(* A model of the general-user-model pipeline of src/gum: the observation  *)
(* batcher and the batch-processing loop (gum.py), the reconciliation of   *)
(* one batch against the claim corpus (gum._process_batch and its          *)
(* helpers), the mixed-initiative decision engine (decision.py) and the    *)
(* attention monitor (attention.py).                                       *)
(*                                                                         *)
(* The module holds several specifications over one set of variables:      *)
(*   Spec        reconciliation cycles of a running batch task             *)
(*   SpecLoop    start/stop of the batch task, the lock, the batcher       *)
(*   FairLoop    SpecLoop with weak fairness of the batch task's steps     *)
(*   SpecFilter  gum._filter_propositions applied to drawn label responses *)
(*   SpecAttach  gum._attach_obs_if_missing applied to drawn pairs         *)
(*   SpecDecide  MixedInitiativeDecisionEngine.make_decision on drawn input*)
(*   SpecEngine  one decision engine deciding several times                *)
(*   SpecAttention  the attention monitor's operations, one at a time      *)
(*   SpecActivity   record_activity filling the activity history           *)
(*   SpecSampler    get_current_attention beside the sampler thread        *)
(*   SpecSwitch     focus computations with the switch times kept          *)
(*   SpecThreads    start/stop of monitoring and the sampler threads       *)
(*   SpecStop       SpecLoop beside the sampler threads                    *)
(*   SpecDispatch   the observers' queues and gum._update_loop             *)
(***************************************************************************)
EXTENDS Integers, Sequences, FiniteSets, Bags, TLC

\* ------------------------------------------------------------------ bounds
\* collector pushes in one run
MaxPush == 3
\* exceptions raised inside _process_batch in one run
MaxFailures == 1
\* drafted claims in one inference response
MaxDrafts == 1
\* revised claims in one revision response
MaxRevised == 2
\* relations in one label response
MaxRelations == 2
\* batch tasks ever created in one run
MaxTasks == 2
\* repeated attach calls per (observation, claim) pair in SpecAttach
MaxRepeat == 2

\* gum.__init__ parameters: batching thresholds (small values of the
\* defaults 5 and 50) and the memory trigger
MinBatchSize == 2
MaxBatchSize == 3
MaxCalls == 3
MaxEvents == 3
MaxSwitches == 2
\* the _monitor_loop threads alive at one time
MaxSamplers == 2
\* the registered observers, and the Updates they place on their queues
MaxObservers == 2
MaxUpdates == 3
\* the capacity of activity_history (maxlen=1000 in the source), scaled down
HistoryMaxlen == 2
MemoryTriggerCount == 30

VARIABLES
  \* ObservationBatcher
  buffer,        \* queued items, oldest first: [id, payload]
  nextLocalId,   \* next local id handed out by push
  pushed,        \* number of collector pushes so far
  \* gum fields
  batchTask,     \* self._batch_task: 0 (None) or a task id
  loopTask,      \* self._loop_task: FALSE (None) or TRUE (running)
  monitoring,    \* self.attention_monitor._monitoring
  lockHolder,    \* self._batch_processing_lock: 0 (free) or the holding task
  propCount,     \* self._proposition_count
  taskPc,        \* position of every batch task ever created
  cancelled,     \* tasks with a pending cancel() request
  stopPc,        \* position of stop_update_loop: "idle" or "awaitBatch"
  \* datastore
  db,            \* committed rows: [obs, props, links]
  tx,            \* the open session's view of the rows
  \* frame of the _process_batch in progress (kept until the next pop)
  batch,         \* the popped items
  observations,  \* ids of the Observation rows created for the batch
  drafts,        \* ids of the claims drafted in this batch
  pool,          \* ids of the candidate pool
  identical, similar, different,   \* the three buckets (sets of claim ids)
  revised,       \* ids of the claims created by the SIMILAR merge
  evaluated,     \* ids handed to _evaluate_proposition_for_action
  before,        \* the committed rows when the batch was popped
  outcome,       \* "none", "running", "committed", "aborted"
  failures,      \* exceptions raised so far
  \* harness state of SpecFilter / SpecAttach / SpecDecide
  relations,     \* the label response given to _filter_propositions
  attachCalls,   \* bag of (observation, claim) pairs attach was called with
  attachError,   \* whether an attach raised
  context,       \* the DecisionContext last given to make_decision
  decision,      \* what make_decision returned for it
  \* the decision engine's fields
  config,        \* self.config
  baseUtilities, \* self.base_utilities
  decisionLog,   \* the calls of make_decision so far: context and result
  \* AttentionMonitor fields
  activity_history,     \* the deque of ActivityEvents, oldest first
  last_activity_time,
  last_active_app,
  app_switch_count,
  last_app_check_time,
  current_state,        \* the AttentionState held
  \* the two threads inside calculate_focus_level
  sampler,       \* the _monitor_loop thread started first of those alive:
                 \* [pc, now, app, early]
  other_samplers, \* the number of further _monitor_loop threads alive
  caller,        \* the thread in get_current_attention: [pc, now, app, early]
  \* history of the monitor's calls
  returned,      \* what get_current_attention returned, if it was the last step
  recorded,      \* every event given to record_activity, in call order
  lastQuery,     \* the active-application query of the last step, if it made
                 \* one: OS outcome and result
  stale,         \* whether the inputs of current_state were read before the
                 \* get_current_attention in progress began
  switch_times,  \* when the switches counted last were counted (the last
                 \* three; kept by SpecSwitch only)
  \* the observers and _update_loop
  observers,     \* per observer: update_queue (Updates not yet taken, oldest
                 \* first) and getters (the pending get() tasks, oldest first,
                 \* each named by the iteration that created it)
  dispatcher     \* the _update_loop task: [pc, iteration, done, placed, consumed]

batcherVars == <<buffer, nextLocalId, pushed>>
taskVars    == <<batchTask, loopTask, monitoring, lockHolder, taskPc, cancelled, stopPc>>
storeVars   == <<db, tx, propCount>>
frameVars   == <<batch, observations, drafts, pool, identical, similar, different,
                 revised, evaluated, before, outcome, failures>>
engineVars  == <<config, baseUtilities, decisionLog>>
monitorVars == <<activity_history, last_activity_time, last_active_app,
                 app_switch_count, switch_times, last_app_check_time, current_state, sampler,
                 other_samplers, caller, returned, recorded, lastQuery, stale>>
observerVars == <<observers, dispatcher>>
harnessVars == <<relations, attachCalls, attachError, context, decision, engineVars,
                 monitorVars, observerVars>>
vars == <<batcherVars, taskVars, storeVars, frameVars, harnessVars>>

\* ----------------------------------------------------------------- helpers
Range(s) == {s[i] : i \in DOMAIN s}

RECURSIVE SetMax(_)
SetMax(S) == IF S = {} THEN 0
             ELSE LET x == CHOOSE y \in S : TRUE
                      m == SetMax(S \ {x})
                  IN IF x > m THEN x ELSE m

Ids(rows) == {r.id : r \in rows}

TaskIds == 1..MaxTasks

\* --------------------------------------------------------------- datastore
EmptyDb == [obs |-> {}, props |-> {}, links |-> EmptyBag]

\* A claim corpus left by an earlier batch: one claim and its two observations.
SeedDb == [obs   |-> {[id |-> 1, payload |-> 0], [id |-> 2, payload |-> 0]},
           props |-> {[id |-> 1, rg |-> 1, version |-> 1]},
           links |-> SetToBag({<<1, 1>>, <<2, 1>>})]

\* ids of the observations linked to claim p
RelatedObservations(store, p) == {l[1] : l \in {x \in BagToSet(store.links) : x[2] = p}}

\* next autoincrement ids of the session
NextObsId(store) == SetMax(Ids(store.obs)) + 1
NextPropId(store) == SetMax(Ids(store.props) \cup Ids(db.props)) + 1
NextRevisionGroup(store) == SetMax({p.rg : p \in store.props \cup db.props}) + 1


\* ------------------------------------------------------ ObservationBatcher
\* push: append to the in-memory buffer under a fresh local id
BatcherPush(buf, id, payload) == Append(buf, [id |-> id, payload |-> payload])

\* the condition wait_for_batch_ready waits for
BatchIsReady(buf) == Len(buf) >= MinBatchSize \/ Len(buf) = MaxBatchSize

\* pop_batch: the drained items, oldest first (the buffer is left empty)
BatcherPopBatch(buf) == buf

\* a re-push that overwrites what was queued in the meantime
RePushOverwriting(buf, items, firstId) ==
  [i \in 1..Len(items) |-> [id |-> firstId + i - 1, payload |-> items[i].payload]]

\* the except branch of _process_batch: every item pushed again, in order,
\* each under the next local id
RePush(buf, items, firstId) ==
  buf \o [i \in 1..Len(items) |-> [id |-> firstId + i - 1, payload |-> items[i].payload]]

\* ------------------------------------------------ _attach_obs_if_missing
\* the link table's uniqueness constraint on (observation_id, proposition_id)
UniqueConflict(links, o, p) == BagIn(<<o, p>>, links)

\* a plain INSERT: a conflict raises an integrity error
AttachPlainInsert(links, o, p) ==
  IF UniqueConflict(links, o, p)
  THEN [links |-> links, error |-> TRUE]
  ELSE [links |-> links (+) SetToBag({<<o, p>>}), error |-> FALSE]

\* INSERT OR IGNORE: the row is skipped on a conflict, and nothing is raised
AttachObsIfMissing(links, o, p) ==
  IF UniqueConflict(links, o, p)
  THEN [links |-> links, error |-> FALSE]
  ELSE [links |-> links (+) SetToBag({<<o, p>>}), error |-> FALSE]

\* the nested loops of _handle_identical and _handle_different
RECURSIVE AttachEach(_, _)
AttachEach(acc, pairs) ==
  IF pairs = {} \/ acc.error THEN acc
  ELSE LET pr == CHOOSE x \in pairs : TRUE
           r  == AttachObsIfMissing(acc.links, pr[1], pr[2])
       IN AttachEach(r, pairs \ {pr})

HandleIdentical(store, ident, obsIds) ==
  LET r == AttachEach([links |-> store.links, error |-> FALSE], obsIds \X ident)
  IN [store |-> [store EXCEPT !.links = r.links], error |-> r.error]

\* _handle_different also hands every claim to the decision engine
HandleDifferent(store, diff, obsIds) ==
  LET r == AttachEach([links |-> store.links, error |-> FALSE], obsIds \X diff)
  IN [store |-> [store EXCEPT !.links = r.links], error |-> r.error,
      evaluated |-> diff]

\* ------------------------------------------------- _filter_propositions
Labels == {"IDENTICAL", "SIMILAR", "UNRELATED"}

NoLabels == [ident |-> {}, sim |-> {}, unrel |-> {}]

\* the loop over data.relations: the three raw id sets
RECURSIVE LabelSets(_, _)
LabelSets(rels, n) ==
  IF n = 0 THEN NoLabels
  ELSE LET acc == LabelSets(rels, n - 1)
           r   == rels[n]
       IN IF r.label = "IDENTICAL"
          THEN [acc EXCEPT !.ident = @ \cup {r.source} \cup r.target]
          ELSE IF r.label = "SIMILAR"
          THEN [acc EXCEPT !.sim = @ \cup {r.source} \cup r.target]
          ELSE [acc EXCEPT !.unrel = @ \cup {r.source}]

\* the buckets without the precedence of IDENTICAL over SIMILAR
FilterWithoutPrecedence(poolIds, raw) ==
  IF poolIds = {}
  THEN [identical |-> {}, similar |-> {}, different |-> {}]
  ELSE [identical |-> raw.ident \cap poolIds,
        similar   |-> raw.sim \cap poolIds,
        different |-> ((raw.unrel \cap poolIds) \ raw.ident) \ raw.sim]

\* the early return on an empty pool, and the three buckets computed from
\* the raw id sets: unknown ids dropped, IDENTICAL before SIMILAR before
\* UNRELATED
FilterPropositions(poolIds, raw) ==
  IF poolIds = {}
  THEN [identical |-> {}, similar |-> {}, different |-> {}]
  ELSE LET ident == raw.ident \cap poolIds
           sim   == raw.sim \cap poolIds
           unrel == raw.unrel \cap poolIds
       IN [identical |-> ident,
           similar   |-> sim \ ident,
           different |-> (unrel \ ident) \ sim]

\* ----------------------------------------------------- _handle_similar
\* rel_obs: the observations of every claim of the cluster, and the batch's
RelObs(store, sim, obsIds) ==
  UNION {RelatedObservations(store, p) : p \in sim} \cup obsIds

\* the cluster is deleted (its links cascade) and k revised claims are
\* created, sharing one new revision group and linked to rel_obs
\* a merge that adds the revised claims but leaves the cluster in place
SimilarMergeKeepsCluster(store, sim, obsIds, k) ==
  LET relObs == RelObs(store, sim, obsIds)
      base   == NextPropId(store) - 1
      newIds == (base + 1)..(base + k)
      rg     == NextRevisionGroup(store)
  IN [store |-> [obs   |-> store.obs,
                 props |-> store.props
                           \cup {[id |-> i, rg |-> rg, version |-> 1] : i \in newIds},
                 links |-> store.links (+) SetToBag(relObs \X newIds)],
      revised |-> newIds]

SimilarMerge(store, sim, obsIds, k) ==
  LET relObs == RelObs(store, sim, obsIds)
      base   == NextPropId(store) - 1
      newIds == (base + 1)..(base + k)
      rg     == NextRevisionGroup(store)
      kept   == {l \in BagToSet(store.links) : l[2] \notin sim}
  IN [store |-> [obs   |-> store.obs,
                 props |-> {p \in store.props : p.id \notin sim}
                           \cup {[id |-> i, rg |-> rg, version |-> 1] : i \in newIds},
                 links |-> [l \in kept |-> store.links[l]]
                           (+) SetToBag(relObs \X newIds)],
      revised |-> newIds]

\* -------------------------------------------- _update_proposition_counter
UpdatePropositionCounter(count, n) ==
  IF n = 0 THEN count
  ELSE IF count + n >= MemoryTriggerCount THEN 0 ELSE count + n


\* ------------------------------------------------------------- _session
\* a session that keeps its writes when the block raises
SessionEndNoRollback(committed, session, ok) == session

\* leaving `async with s.begin()`: the session's writes are committed on a
\* normal exit and rolled back when an exception passes through
SessionEnd(committed, session, ok) == IF ok THEN session ELSE committed

\* ====================================================== batch processing
InProcess == {"construct", "search", "label", "revise", "commit"}

\* a loop that pops without wait_for_batch_ready
LoopPopsWithoutWaiting(pcv, buf) == pcv \in {"wait", "lock"}

\* _batch_processing_loop pops only after wait_for_batch_ready has returned
\* (a task already past the wait is waiting for the lock)
LoopMayPop(pcv, buf) == IF pcv = "wait" THEN BatchIsReady(buf) ELSE pcv = "lock"

\* a collector's update reaches _default_handler, which pushes it
Push ==
  /\ pushed < MaxPush
  /\ buffer' = BatcherPush(buffer, nextLocalId, pushed + 1)
  /\ nextLocalId' = nextLocalId + 1
  /\ pushed' = pushed + 1
  /\ UNCHANGED <<taskVars, storeVars, frameVars, harnessVars>>

\* _batch_processing_loop: wait_for_batch_ready returns, the lock is taken
\* and the batch is popped; _process_batch opens the session, adds one
\* Observation row per item and flushes, then awaits the drafting call.
\* A task that finds the lock held waits for it.
LoopIteration(t) ==
  /\ t \notin cancelled
  /\ LoopMayPop(taskPc[t], buffer)
  /\ taskPc[t] = "lock" => lockHolder = 0
  /\ IF lockHolder # 0
     THEN /\ taskPc' = [taskPc EXCEPT ![t] = "lock"]
          /\ UNCHANGED <<batcherVars, batchTask, loopTask, monitoring, lockHolder,
                         cancelled, stopPc, storeVars, frameVars>>
     ELSE LET items == BatcherPopBatch(buffer)
              first == NextObsId(db)
              rows  == {[id |-> first + i - 1, payload |-> items[i].payload] :
                          i \in 1..Len(items)}
          IN /\ lockHolder' = t
             /\ buffer' = <<>>
             /\ batch' = items
             /\ tx' = [db EXCEPT !.obs = @ \cup rows]
             /\ observations' = Ids(rows)
             /\ before' = db
             /\ outcome' = "running"
             /\ drafts' = {} /\ pool' = {} /\ identical' = {} /\ similar' = {}
             /\ different' = {} /\ revised' = {} /\ evaluated' = {}
             /\ taskPc' = [taskPc EXCEPT ![t] = "construct"]
             /\ UNCHANGED <<nextLocalId, pushed, batchTask, loopTask, monitoring,
                            cancelled, stopPc, db, propCount, failures>>
  /\ UNCHANGED harnessVars

\* the except branch of _process_batch, after the session has rolled back
Abort(t) ==
  /\ db' = SessionEnd(db, tx, FALSE)
  /\ tx' = db'
  /\ buffer' = RePush(buffer, batch, nextLocalId)
  /\ nextLocalId' = nextLocalId + Len(batch)
  /\ lockHolder' = 0
  /\ taskPc' = [taskPc EXCEPT ![t] = "wait"]
  /\ outcome' = "aborted"
  /\ failures' = failures + 1
  /\ UNCHANGED <<pushed, batchTask, loopTask, monitoring, cancelled, stopPc>>

\* _handle_different, _update_proposition_counter; the commit is awaited next
FinishHandlers(t, store, buckets, evald) ==
  LET hd == HandleDifferent(store, buckets.different, observations)
  IN IF hd.error
     THEN /\ Abort(t)
          /\ evaluated' = evald
          /\ UNCHANGED propCount
     ELSE /\ tx' = hd.store
          /\ evaluated' = evald \cup hd.evaluated
          /\ propCount' = UpdatePropositionCounter(propCount, Cardinality(buckets.different))
          /\ taskPc' = [taskPc EXCEPT ![t] = "commit"]
          /\ UNCHANGED <<batcherVars, batchTask, loopTask, monitoring, lockHolder,
                         cancelled, stopPc, db, outcome, failures>>

\* _filter_propositions on the pool, then _handle_identical and the start of
\* _handle_similar (which awaits the revision call when the set is not empty)
ApplyLabels(t, store, poolIds, raw) ==
  LET buckets == FilterPropositions(poolIds, raw)
      hi      == HandleIdentical(store, buckets.identical, observations)
  IN /\ pool' = poolIds
     /\ identical' = buckets.identical
     /\ similar' = buckets.similar
     /\ different' = buckets.different
     /\ IF hi.error
        THEN Abort(t) /\ UNCHANGED <<evaluated, propCount>>
        ELSE IF buckets.similar # {}
        THEN /\ tx' = hi.store
             /\ taskPc' = [taskPc EXCEPT ![t] = "revise"]
             /\ UNCHANGED <<batcherVars, batchTask, loopTask, monitoring, lockHolder,
                            cancelled, stopPc, db, propCount, evaluated, outcome,
                            failures>>
        ELSE FinishHandlers(t, hi.store, buckets, evaluated)

\* _construct_propositions returns n drafted claims.  With none, the pool is
\* empty, _filter_propositions makes no call and the handlers have nothing
\* to do.
ConstructPropositions(t, n) ==
  /\ taskPc[t] = "construct" /\ t \notin cancelled
  /\ IF n = 0
     THEN /\ ApplyLabels(t, tx, {}, NoLabels)
          /\ UNCHANGED <<drafts, revised>>
     ELSE /\ drafts' = (NextPropId(tx))..(NextPropId(tx) + n - 1)
          /\ taskPc' = [taskPc EXCEPT ![t] = "search"]
          /\ UNCHANGED <<batcherVars, batchTask, loopTask, monitoring, lockHolder,
                         cancelled, stopPc, storeVars, pool, identical, similar,
                         different, revised, evaluated, outcome, failures>>
  /\ UNCHANGED <<batch, observations, before, harnessVars>>

\* _generate_and_search: the searches return the persisted claims `hits`;
\* the drafts are added and flushed (version 1, a fresh revision group each)
SearchPropositions(t, hits) ==
  /\ taskPc[t] = "search" /\ t \notin cancelled
  /\ LET rg0  == NextRevisionGroup(tx) - 1
         d0   == NextPropId(tx) - 1
         rows == {[id |-> i, rg |-> rg0 + (i - d0), version |-> 1] : i \in drafts}
     IN /\ tx' = [tx EXCEPT !.props = @ \cup rows]
        /\ pool' = hits \cup drafts
  /\ taskPc' = [taskPc EXCEPT ![t] = "label"]
  /\ UNCHANGED <<batcherVars, batchTask, loopTask, monitoring, lockHolder, cancelled,
                 stopPc, db, propCount, batch, observations, drafts, identical,
                 similar, different, revised, evaluated, before, outcome, failures,
                 harnessVars>>

\* the relation-labelling call returns a response whose relations put the
\* ids `raw.ident`, `raw.sim`, `raw.unrel` under the three labels
LabelPropositions(t, raw) ==
  /\ taskPc[t] = "label" /\ t \notin cancelled
  /\ ApplyLabels(t, tx, pool, raw)
  /\ UNCHANGED <<batch, observations, drafts, revised, before, harnessVars>>

\* _revise_propositions returns k revised claims; the merge, the decision
\* engine on each revised claim, then _handle_different
RevisePropositions(t, k) ==
  /\ taskPc[t] = "revise" /\ t \notin cancelled
  /\ LET m == SimilarMerge(tx, similar, observations, k)
     IN /\ revised' = m.revised
        /\ FinishHandlers(t, m.store,
                          [identical |-> identical, similar |-> similar,
                           different |-> different],
                          evaluated \cup m.revised)
  /\ UNCHANGED <<batch, observations, drafts, pool, identical, similar, different,
                 before, harnessVars>>

\* the session's transaction commits on leaving the with block
Commit(t) ==
  /\ taskPc[t] = "commit" /\ t \notin cancelled
  /\ db' = SessionEnd(db, tx, TRUE)
  /\ lockHolder' = 0
  /\ outcome' = "committed"
  /\ taskPc' = [taskPc EXCEPT ![t] = "wait"]
  /\ UNCHANGED <<batcherVars, batchTask, loopTask, monitoring, cancelled, stopPc, tx,
                 propCount, batch, observations, drafts, pool, identical, similar,
                 different, revised, evaluated, before, failures, harnessVars>>

\* an awaited call (inference, search, labelling, revision, flush, commit)
\* raises an Exception
RaiseException(t) ==
  /\ taskPc[t] \in InProcess /\ t \notin cancelled
  /\ failures < MaxFailures
  /\ Abort(t)
  /\ UNCHANGED <<propCount, batch, observations, drafts, pool, identical, similar,
                 different, revised, evaluated, before, harnessVars>>


\* ============================================== observers and _update_loop
Observers == 1..MaxObservers

\* no Update placed, and the loop about to create its first get() tasks
ObserversIdle ==
  /\ observers = [o \in Observers |-> [update_queue |-> <<>>, getters |-> <<>>]]
  /\ dispatcher = [pc |-> "create", iteration |-> 1, done |-> {}, placed |-> 0,
                   consumed |-> {}]

dispatchRest == <<pushed, taskVars, storeVars, frameVars, relations, attachCalls,
                  attachError, context, decision, engineVars, monitorVars>>

\* an observer places its next Update on its update_queue
PutUpdate(o) ==
  /\ dispatcher.placed < MaxUpdates
  /\ observers' = [observers EXCEPT
                     ![o].update_queue = Append(@, dispatcher.placed + 1)]
  /\ dispatcher' = [dispatcher EXCEPT !.placed = @ + 1]
  /\ UNCHANGED <<buffer, nextLocalId, dispatchRest>>

\* the top of the while loop: one get() task per observer is created and
\* waits on the observer's queue behind the get() tasks already waiting there
CreateGets ==
  /\ loopTask
  /\ dispatcher.pc = "create"
  /\ observers' = [o \in Observers |->
                     [observers[o] EXCEPT !.getters = Append(@, dispatcher.iteration)]]
  /\ dispatcher' = [dispatcher EXCEPT !.pc = "wait"]
  /\ UNCHANGED <<buffer, nextLocalId, dispatchRest>>

\* whether the loop still holds the get() task (in `gets`) when it completes
InGets(iteration, created) == created = iteration

\* the queue hands its oldest Update to the get() task that has waited
\* longest; the loop sees the result only of a task it still holds
GetCompletes(o) ==
  /\ observers[o].update_queue # <<>>
  /\ observers[o].getters # <<>>
  /\ LET upd     == Head(observers[o].update_queue)
         created == Head(observers[o].getters)
     IN /\ observers' = [observers EXCEPT ![o].update_queue = Tail(@),
                                          ![o].getters = Tail(@)]
        /\ dispatcher' =
             [dispatcher EXCEPT
                !.consumed = @ \cup {upd},
                !.done = IF InGets(dispatcher.iteration, created)
                         THEN @ \cup {[observer |-> o, update |-> upd]} ELSE @]
  /\ UNCHANGED <<buffer, nextLocalId, dispatchRest>>

RECURSIVE PushEach(_, _, _)
\* _default_handler for each completed get(), in observer order
PushEach(buf, id, results) ==
  IF results = {} THEN buf
  ELSE LET r == CHOOSE x \in results : \A y \in results : x.observer <= y.observer
       IN PushEach(BatcherPush(buf, id, r.update), id + 1, results \ {r})

\* asyncio.wait returns with the completed get() tasks of this iteration;
\* a handler task pushes each Update to the batcher; the tasks still
\* pending are left waiting and the loop starts over
DispatchDone ==
  /\ dispatcher.pc = "wait"
  /\ dispatcher.done # {}
  /\ buffer' = PushEach(buffer, nextLocalId, dispatcher.done)
  /\ nextLocalId' = nextLocalId + Cardinality(dispatcher.done)
  /\ dispatcher' = [dispatcher EXCEPT !.pc = "create", !.iteration = @ + 1,
                                      !.done = {}]
  /\ UNCHANGED <<observers, dispatchRest>>


\* ======================================================= start and stop
\* a start that does not look at the field
AlwaysCreatesBatchTask(bt) == TRUE

\* `if self._batch_task is None`
CreatesBatchTask(bt) == bt = 0

\* the next task id not yet used (0 when the model's supply is exhausted)
FreshTask == IF \E t \in TaskIds : taskPc[t] = "none"
             THEN CHOOSE t \in TaskIds :
                    taskPc[t] = "none" /\ \A u \in TaskIds : taskPc[u] = "none" => t <= u
             ELSE 0

\* a thread of the attention monitor at position pc, nothing read yet
ThreadIdle(pc) == [pc |-> pc, now |-> 0, app |-> <<>>, early |-> FALSE]

\* the _monitor_loop threads that have not ended
SamplersAlive == (IF sampler.pc = "off" THEN 0 ELSE 1) + other_samplers

\* start_monitoring: nothing when the flag is set; otherwise a new thread is
\* created and started, whether or not an earlier one is still alive
StartSampler ==
  IF monitoring
  THEN UNCHANGED <<sampler, other_samplers>>
  ELSE /\ SamplersAlive < MaxSamplers
       /\ IF sampler.pc = "off"
          THEN sampler' = ThreadIdle("loop") /\ UNCHANGED other_samplers
          ELSE other_samplers' = other_samplers + 1 /\ UNCHANGED sampler

\* start_update_loop: creates the update-loop task and the batch task when
\* the field is None, and starts the attention monitor
StartUpdateLoop ==
  /\ CreatesBatchTask(batchTask) => FreshTask # 0
  /\ loopTask' = TRUE
  /\ StartSampler
  /\ monitoring' = TRUE
  /\ IF CreatesBatchTask(batchTask)
     THEN /\ batchTask' = FreshTask
          /\ taskPc' = [taskPc EXCEPT ![FreshTask] = "wait"]
     ELSE UNCHANGED <<batchTask, taskPc>>
  /\ UNCHANGED <<batcherVars, lockHolder, cancelled, stopPc, storeVars, frameVars,
                 relations, attachCalls, attachError, context, decision, engineVars,
                 activity_history, last_activity_time, last_active_app,
                 app_switch_count, switch_times, last_app_check_time, current_state,
                 caller, returned, recorded, lastQuery, stale, observerVars>>

\* stop_update_loop up to `await self._batch_task`: the update-loop task is
\* cancelled and the batch task is sent a cancel request
StopUpdateLoop ==
  /\ stopPc = "idle"
  /\ loopTask' = FALSE
  /\ IF batchTask # 0
     THEN /\ cancelled' = cancelled \cup {batchTask}
          /\ stopPc' = "awaitBatch"
          /\ UNCHANGED monitoring
     ELSE /\ monitoring' = FALSE
          /\ UNCHANGED <<cancelled, stopPc>>
  /\ UNCHANGED <<batcherVars, batchTask, lockHolder, taskPc, storeVars, frameVars,
                 harnessVars>>

\* CancelledError is raised in the batch task at the await it is suspended
\* at.  It is not an Exception: the session rolls back (a commit in flight
\* may or may not have completed), the lock is released, nothing is pushed
\* back, and the task ends.
TaskCancelled(t, committed) ==
  /\ t \in cancelled
  /\ taskPc[t] \in InProcess \cup {"wait", "lock"}
  /\ committed => taskPc[t] = "commit"
  /\ IF taskPc[t] \in InProcess
     THEN /\ db' = SessionEnd(db, tx, committed)
          /\ tx' = db'
          /\ lockHolder' = 0
          /\ outcome' = IF committed THEN "committed" ELSE "cancelled"
     ELSE UNCHANGED <<db, tx, lockHolder, outcome>>
  /\ taskPc' = [taskPc EXCEPT ![t] = "done"]
  /\ cancelled' = cancelled \ {t}
  /\ UNCHANGED <<batcherVars, batchTask, loopTask, monitoring, stopPc, propCount,
                 batch, observations, drafts, pool, identical, similar, different,
                 revised, evaluated, before, failures, harnessVars>>

\* stop_update_loop after the await: the field is cleared and the attention
\* monitor is stopped
StopFinish ==
  /\ stopPc = "awaitBatch"
  /\ taskPc[batchTask] = "done"
  /\ batchTask' = 0
  /\ monitoring' = FALSE
  /\ stopPc' = "idle"
  /\ UNCHANGED <<batcherVars, loopTask, lockHolder, taskPc, cancelled, storeVars,
                 frameVars, harnessVars>>

\* ==================================================== the decision engine
\* Python values: None, a number, or a string that is no number.  Focus
\* levels and utilities are in hundredths, multipliers in tenths.
NoneValue == [kind |-> "none", value |-> 0]
Num(n) == [kind |-> "num", value |-> n]
StrValue == [kind |-> "str", value |-> 0]

NoneApp == [kind |-> "none", name |-> ""]
App(name) == [kind |-> "str", name |-> name]

NoneProposition == [kind |-> "none", confidence |-> NoneValue]
Proposition(conf) == [kind |-> "claim", confidence |-> conf]

Min(a, b) == IF a <= b THEN a ELSE b
Max(a, b) == IF a >= b THEN a ELSE b

\* the values DecisionConfig supplies by default
DecisionConfig ==
  [u_no_action_goal_true |-> 0,   u_no_action_goal_false |-> 0,
   u_dialogue_goal_true  |-> 50,  u_dialogue_goal_false  |-> -20,
   u_action_goal_true    |-> 100, u_action_goal_false    |-> -100,
   high_focus_threshold |-> 80, low_focus_threshold |-> 30,
   high_focus_penalty_multiplier |-> 20, low_focus_penalty_reduction |-> 5]

\* configurations of the shape the decision procedure is specified for:
\* no_action worth nothing either way, dialogue between no_action and
\* action in payoff and in penalty, both penalties negative, an amplifying
\* and a dampening multiplier
DecisionConfigs ==
  [u_no_action_goal_true : {0},   u_no_action_goal_false : {0},
   u_dialogue_goal_true  : {50, 80}, u_dialogue_goal_false : {-20, -10},
   u_action_goal_true    : {100}, u_action_goal_false   : {-100, -50},
   high_focus_threshold : {80}, low_focus_threshold : {30},
   high_focus_penalty_multiplier : {20, 30, 1000}, low_focus_penalty_reduction : {5}]

FocusApps == {"xcode", "vscode", "terminal", "intellij", "pycharm", "sublime"}

FocusBonus == 20

\* str.lower on the application names of the model
Lower(name) ==
  CASE name = "Xcode" -> "xcode"
    [] name = "VSCode" -> "vscode"
    [] OTHER -> name

\* what a raising call leaves: no result
Raises == [raised |-> TRUE, error |-> FALSE, action |-> "", confidence |-> 0,
           eu |-> [no_action |-> 0, dialogue |-> 0, autonomous_action |-> 0]]

\* MixedInitiativeDecisionEngine.__init__: the base utilities are loaded
\* from the configuration
BaseUtilities(cfg) ==
  [u_action_goal_true     |-> cfg.u_action_goal_true,
   u_action_goal_false    |-> cfg.u_action_goal_false,
   u_no_action_goal_true  |-> cfg.u_no_action_goal_true,
   u_no_action_goal_false |-> cfg.u_no_action_goal_false,
   u_dialogue_goal_true   |-> cfg.u_dialogue_goal_true,
   u_dialogue_goal_false  |-> cfg.u_dialogue_goal_false]

\* the focus level the thresholds are compared with: the bonus of a focus
\* application, capped at 1.0
BoostedAttention(attention, app) ==
  IF Lower(app.name) \in FocusApps
  THEN Min(100, attention.value + FocusBonus)
  ELSE attention.value

\* the multiplier (in tenths) of the two false-goal penalties, the high and
\* the low multiplier exchanged
PenaltyMultiplierExchanged(level) ==
  IF level > config.high_focus_threshold
  THEN config.low_focus_penalty_reduction
  ELSE IF level < config.low_focus_threshold
  THEN config.high_focus_penalty_multiplier
  ELSE 10

\* the multiplier (in tenths) of the two false-goal penalties
PenaltyMultiplier(level) ==
  IF level > config.high_focus_threshold
  THEN config.high_focus_penalty_multiplier
  ELSE IF level < config.low_focus_threshold
  THEN config.low_focus_penalty_reduction
  ELSE 10

\* an adjustment that also scales the payoff of a correct autonomous action
AdjustUtilitiesAlsoPayoff(attention, app) ==
  IF app.kind = "none" \/ attention.kind # "num"
  THEN [raised |-> TRUE, utilities |-> <<>>]
  ELSE LET level == BoostedAttention(attention, app)
           mult  == PenaltyMultiplier(level)
           copy  == [k \in DOMAIN baseUtilities |-> baseUtilities[k] * 10]
       IN [raised |-> FALSE,
           utilities |->
             [copy EXCEPT
                !.u_action_goal_false = config.u_action_goal_false * mult,
                !.u_dialogue_goal_false = config.u_dialogue_goal_false * mult,
                !.u_action_goal_true = config.u_action_goal_true * mult]]

\* adjust_utilities_for_attention: a copy of the base utilities (times
\* ten), the two false-goal penalties replaced under high and under low
\* focus by the configured penalty times the multiplier; or a raise on a
\* None application name (.lower()) or a None focus level (+, >)
AdjustUtilitiesForAttention(attention, app) ==
  IF app.kind = "none" \/ attention.kind # "num"
  THEN [raised |-> TRUE, utilities |-> <<>>]
  ELSE LET level == BoostedAttention(attention, app)
           mult  == PenaltyMultiplier(level)
           copy  == [k \in DOMAIN baseUtilities |-> baseUtilities[k] * 10]
       IN [raised |-> FALSE,
           utilities |->
             IF level <= config.high_focus_threshold /\ level >= config.low_focus_threshold
             THEN copy
             ELSE [copy EXCEPT
                     !.u_action_goal_false = config.u_action_goal_false * mult,
                     !.u_dialogue_goal_false = config.u_dialogue_goal_false * mult]]

\* the base utilities after a call that adjusts the shared table in place
BaseUtilitiesAliased(ctx) ==
  LET adjusted == AdjustUtilitiesForAttention(ctx.user_attention_level,
                                              ctx.active_application)
  IN IF ctx.proposition.kind = "none" \/ adjusted.raised
     THEN baseUtilities
     ELSE [k \in DOMAIN baseUtilities |-> adjusted.utilities[k] \div 10]

\* the base utilities after a call: the adjustment works on a copy
BaseUtilitiesAfter(ctx) == baseUtilities

\* the expected utilities with p_goal and 1 - p_goal exchanged
ExpectedUtilitiesExchanged(confidence, u) ==
  [no_action |-> (10 - confidence) * u.u_no_action_goal_true
                   + confidence * u.u_no_action_goal_false,
   dialogue  |-> (10 - confidence) * u.u_dialogue_goal_true
                   + confidence * u.u_dialogue_goal_false,
   autonomous_action |-> (10 - confidence) * u.u_action_goal_true
                   + confidence * u.u_action_goal_false]

\* calculate_expected_utilities with p_goal = confidence / 10 (times ten)
CalculateExpectedUtilities(confidence, u) ==
  [no_action |-> confidence * u.u_no_action_goal_true
                   + (10 - confidence) * u.u_no_action_goal_false,
   dialogue  |-> confidence * u.u_dialogue_goal_true
                   + (10 - confidence) * u.u_dialogue_goal_false,
   autonomous_action |-> confidence * u.u_action_goal_true
                   + (10 - confidence) * u.u_action_goal_false]

DecisionOrder == <<"no_action", "dialogue", "autonomous_action">>

\* max over the dict's keys: the first key, in insertion order, of the
\* highest expected utility
BestAction(eu) ==
  LET i == CHOOSE i \in 1..3 :
              /\ \A j \in 1..3 : eu[DecisionOrder[j]] <= eu[DecisionOrder[i]]
              /\ \A j \in 1..(i - 1) : eu[DecisionOrder[j]] < eu[DecisionOrder[i]]
  IN DecisionOrder[i]

\* `x or 5` takes 5 for None and for 0
Falsy(v) == v.kind = "none" \/ (v.kind = "num" /\ v.value = 0)

\* the try block of make_decision
DecisionBody(ctx) ==
  IF ctx.proposition.kind = "none"
  THEN Raises
  ELSE LET conf == IF Falsy(ctx.proposition.confidence)
                   THEN Num(5) ELSE ctx.proposition.confidence
       IN IF conf.kind # "num"
          THEN Raises
          ELSE LET clamped == Max(1, Min(10, conf.value))
                   adj     == AdjustUtilitiesForAttention(ctx.user_attention_level,
                                                          ctx.active_application)
               IN IF adj.raised
                  THEN Raises
                  ELSE LET eu == CalculateExpectedUtilities(clamped, adj.utilities)
                       IN [raised |-> FALSE, error |-> FALSE,
                           action |-> BestAction(eu), confidence |-> clamped,
                           eu |-> eu]

\* make_decision without its except branch
MakeDecisionUncaught(ctx) == DecisionBody(ctx)

\* make_decision: the result of the try block, or the fallback of the
\* except branch, which carries the error in the metadata
MakeDecision(ctx) ==
  LET r == DecisionBody(ctx)
  IN IF r.raised
     THEN [Raises EXCEPT !.raised = FALSE, !.error = TRUE, !.action = "no_action"]
     ELSE r


\* ======================================================= AttentionMonitor
\* application names are sequences of characters, so that the substring
\* tests of classify_app_focus_level are computed

FocusAppNames ==
  {<<"x","c","o","d","e">>,
   <<"v","i","s","u","a","l"," ","s","t","u","d","i","o"," ","c","o","d","e">>,
   <<"v","s","c","o","d","e">>, <<"i","n","t","e","l","l","i","j">>,
   <<"p","y","c","h","a","r","m">>, <<"t","e","r","m","i","n","a","l">>,
   <<"i","t","e","r","m">>, <<"s","u","b","l","i","m","e"," ","t","e","x","t">>,
   <<"v","i","m">>, <<"e","m","a","c","s">>, <<"a","t","o","m">>,
   <<"a","n","d","r","o","i","d"," ","s","t","u","d","i","o">>,
   <<"e","c","l","i","p","s","e">>, <<"n","e","t","b","e","a","n","s">>,
   <<"c","o","d","e">>, <<"p","h","p","s","t","o","r","m">>}

CasualAppNames ==
  {<<"s","a","f","a","r","i">>, <<"c","h","r","o","m","e">>,
   <<"f","i","r","e","f","o","x">>, <<"s","p","o","t","i","f","y">>,
   <<"m","u","s","i","c">>, <<"y","o","u","t","u","b","e">>, <<"s","l","a","c","k">>,
   <<"d","i","s","c","o","r","d">>, <<"m","e","s","s","a","g","e","s">>,
   <<"f","a","c","e","t","i","m","e">>, <<"z","o","o","m">>, <<"t","e","a","m","s">>,
   <<"n","e","t","f","l","i","x">>, <<"h","u","l","u">>,
   <<"i","n","s","t","a","g","r","a","m">>, <<"f","a","c","e","b","o","o","k">>,
   <<"t","w","i","t","t","e","r">>}

Unknown == <<"u","n","k","n","o","w","n">>

\* what osascript may print
Stdouts ==
  {<<"X","c","o","d","e","\n">>, <<"S","a","f","a","r","i","\n">>, <<"\n">>}

\* the clock readings time.time() may give (wall clock: it may step back)
Times == {0, 60, 400}

ConstructionTime == 0

LowerChar(ch) ==
  CASE ch = "X" -> "x" [] ch = "S" -> "s" [] OTHER -> ch

\* str.lower()
LowerName(name) == [i \in DOMAIN name |-> LowerChar(name[i])]

IsWhitespace(ch) == ch \in {" ", "\n", "\t"}

RECURSIVE Strip(_)
\* str.strip()
Strip(name) ==
  IF name = <<>> THEN name
  ELSE IF IsWhitespace(Head(name)) THEN Strip(Tail(name))
  ELSE IF IsWhitespace(name[Len(name)]) THEN Strip(SubSeq(name, 1, Len(name) - 1))
  ELSE name

\* Python's `inner in outer` on strings
Contains(inner, outer) ==
  \E i \in 0..(Len(outer) - Len(inner)) : SubSeq(outer, i + 1, i + Len(inner)) = inner

\* the outcomes of subprocess.run(['osascript', ...], timeout=2)
OsOutcomes ==
  {[kind |-> k, returncode |-> 0, stdout |-> <<>>] :
      k \in {"timeout", "not_found", "error"}}
  \cup {[kind |-> "completed", returncode |-> 0, stdout |-> out] : out \in Stdouts}
  \cup {[kind |-> "completed", returncode |-> 1, stdout |-> <<>>]}

\* get_active_application catching TimeoutExpired and FileNotFoundError only
GetActiveApplicationNarrow(os) ==
  IF os.kind = "completed"
  THEN IF os.returncode = 0 /\ Strip(os.stdout) # <<>>
       THEN [raised |-> FALSE, app |-> LowerName(Strip(os.stdout))]
       ELSE [raised |-> FALSE, app |-> Unknown]
  ELSE IF os.kind \in {"timeout", "not_found"}
       THEN [raised |-> FALSE, app |-> Unknown]
       ELSE [raised |-> TRUE, app |-> <<>>]

\* get_active_application: the three except clauses all return "unknown"
GetActiveApplication(os) ==
  IF os.kind = "completed"
  THEN IF os.returncode = 0 /\ Strip(os.stdout) # <<>>
       THEN [raised |-> FALSE, app |-> LowerName(Strip(os.stdout))]
       ELSE [raised |-> FALSE, app |-> Unknown]
  ELSE [raised |-> FALSE, app |-> Unknown]

\* classify_app_focus_level, in hundredths
ClassifyAppFocusLevel(app_name) ==
  LET app_lower == LowerName(app_name)
  IN IF app_lower \in FocusAppNames THEN 90
     ELSE IF app_lower \in CasualAppNames THEN 20
     ELSE IF \E focus_app \in FocusAppNames :
                Contains(focus_app, app_lower) \/ Contains(app_lower, focus_app)
          THEN 90
     ELSE IF \E casual_app \in CasualAppNames :
                Contains(casual_app, app_lower) \/ Contains(app_lower, casual_app)
          THEN 20
     ELSE 50

\* the names get_active_application can return, and their classification
ActiveApplications == {GetActiveApplication(os).app : os \in OsOutcomes}

AppFocus == [app \in ActiveApplications |-> ClassifyAppFocusLevel(app)]

\* a number as a fraction num / den with den > 0
Fraction(n, d) == [num |-> n, den |-> d]

\* the focus score without the caps of the two penalties and without the
\* final clamp
FocusScoreUnclamped(app_focus, recent_activity, idle_time, switch_frequency) ==
  LET activity_factor == Min(100, recent_activity * 5)
      base       == 7 * app_focus + 3 * activity_factor
      idleFactor == IF idle_time > 30 THEN 300 - (idle_time - 30) ELSE 300
      frequent   == switch_frequency.num > 2 * switch_frequency.den
      switchFactor ==
        IF frequent
        THEN 10 * switch_frequency.den
               - (switch_frequency.num - 2 * switch_frequency.den)
        ELSE 10 * switch_frequency.den
  IN Fraction(base * idleFactor * switchFactor,
              1000 * 300 * 10 * switch_frequency.den)

\* steps 5 of calculate_focus_level as an exact fraction: 0.7 app + 0.3
\* activity (base, in thousandths), times 1 - idle penalty (in 1/300), times
\* 1 - distraction penalty (in 1/(10 den)), clamped to [0, 1]
FocusScore(app_focus, recent_activity, idle_time, switch_frequency) ==
  LET activity_factor == Min(100, recent_activity * 5)
      base       == 7 * app_focus + 3 * activity_factor
      idleFactor == IF idle_time > 30
                    THEN 300 - Min(240, idle_time - 30) ELSE 300
      frequent   == switch_frequency.num > 2 * switch_frequency.den
      switchFactor ==
        IF frequent
        THEN 10 * switch_frequency.den
               - Min(5 * switch_frequency.den,
                     switch_frequency.num - 2 * switch_frequency.den)
        ELSE 10 * switch_frequency.den
      den == 1000 * 300 * 10 * switch_frequency.den
  IN Fraction(Max(0, Min(den, base * idleFactor * switchFactor)), den)

AttentionState(focus, app, idle, recent, frequency, conf) ==
  [focus_level |-> focus, active_application |-> app, idle_time_seconds |-> idle,
   recent_activity_count |-> recent, app_switch_frequency |-> frequency,
   confidence |-> conf]

ActivityEvent(now, type) == [timestamp |-> now, event_type |-> type]

EventTypes == {"keyboard", "mouse"}

\* a deque that refuses a new event once it is full
DequeAppendKeepsOldest(history, event) ==
  IF Len(history) >= HistoryMaxlen THEN history ELSE Append(history, event)

\* deque(maxlen=...).append: a full deque drops its oldest element
DequeAppend(history, event) ==
  IF Len(history) >= HistoryMaxlen
  THEN Append(Tail(history), event)
  ELSE Append(history, event)

\* calculate_focus_level after the clock and the application are read: the
\* values it computes from the monitor's fields and the fields it writes
\* `if switch_frequency > 2`: switches per minute that are not penalised
SwitchThreshold == 2

\* the value of switch_times in the specifications that keep no history
NotTracked == <<-1>>

\* the history of switch times goes back one switch more than that
TrackedSwitches == SwitchThreshold + 1

KeepLast(times) ==
  IF Len(times) <= TrackedSwitches THEN times
  ELSE SubSeq(times, Len(times) - TrackedSwitches + 1, Len(times))

CalculateFocusLevel(now, current_app) ==
  LET idle_time == now - last_activity_time
      recent_cutoff == now - 120
      recent_activity ==
        Cardinality({i \in DOMAIN activity_history :
                        activity_history[i].timestamp > recent_cutoff})
      switched == current_app # last_active_app /\ current_app # Unknown
      counted  == IF switched THEN app_switch_count + 1 ELSE app_switch_count
      time_since_last_check == now - last_app_check_time
      minute_over == time_since_last_check >= 60
      switch_frequency == IF minute_over
                          THEN Fraction(60 * counted, time_since_last_check)
                          ELSE Fraction(0, 1)
      focus_score == FocusScore(AppFocus[current_app], recent_activity,
                                idle_time, switch_frequency)
  IN [last_active_app |-> IF switched THEN current_app ELSE last_active_app,
      app_switch_count |-> IF minute_over THEN 0 ELSE counted,
      switch_times |-> IF switched /\ switch_times # NotTracked
                       THEN KeepLast(Append(switch_times, now))
                       ELSE switch_times,
      last_app_check_time |-> IF minute_over THEN now ELSE last_app_check_time,
      current_state |-> AttentionState(focus_score, current_app, idle_time,
                                       recent_activity, switch_frequency, 80)]

\* the fields calculate_focus_level writes take the values of `r`
WriteFocus(r) ==
  /\ last_active_app' = r.last_active_app
  /\ app_switch_count' = r.app_switch_count
  /\ switch_times' = r.switch_times
  /\ last_app_check_time' = r.last_app_check_time
  /\ current_state' = r.current_state


NoQuery == [os |-> [kind |-> "none", returncode |-> 0, stdout |-> <<>>],
            result |-> [raised |-> FALSE, app |-> <<>>]]

NoResult == [kind |-> "none", stale |-> FALSE,
             state |-> AttentionState(Fraction(0, 1), <<>>, 0, 0, Fraction(0, 1), 0)]

\* AttentionMonitor.__init__
MonitorFields(times, pc) ==
  /\ activity_history = <<>>
  /\ last_activity_time = ConstructionTime
  /\ last_active_app = <<>>
  /\ app_switch_count = 0
  /\ switch_times = times
  /\ last_app_check_time = ConstructionTime
  /\ current_state = AttentionState(Fraction(1, 2), Unknown, 0, 0, Fraction(0, 1), 50)
  /\ sampler = ThreadIdle(pc)
  /\ other_samplers = 0
  /\ caller = ThreadIdle("idle")
  /\ returned = NoResult
  /\ recorded = <<>>
  /\ lastQuery = NoQuery
  /\ stale = FALSE

MonitorIdle == MonitorFields(NotTracked, "off")

\* what the monitor's operations leave alone: the rest of the program, and
\* (all but start_monitoring and the further threads themselves) the number
\* of further sampler threads
restVars == <<batcherVars, storeVars, frameVars, relations, attachCalls, attachError,
              context, decision, engineVars, batchTask, loopTask, lockHolder, taskPc,
              cancelled, stopPc, observerVars>>
coreVars == <<restVars, other_samplers>>

\* record_activity
RecordActivity(now, type) ==
  /\ Len(recorded) < MaxEvents
  /\ LET event == ActivityEvent(now, type)
     IN /\ activity_history' = DequeAppend(activity_history, event)
        /\ recorded' = Append(recorded, event)
  /\ last_activity_time' = now
  /\ returned' = NoResult
  /\ lastQuery' = NoQuery
  /\ UNCHANGED <<coreVars, monitoring, last_active_app, app_switch_count, switch_times,
                 last_app_check_time, current_state, sampler, caller, stale>>

\* start_monitoring
StartMonitoring ==
  /\ ~monitoring
  /\ StartSampler
  /\ monitoring' = TRUE
  /\ returned' = NoResult
  /\ lastQuery' = NoQuery
  /\ UNCHANGED <<restVars, activity_history, last_activity_time, last_active_app,
                 app_switch_count, switch_times, last_app_check_time, current_state, caller,
                 recorded, stale>>

\* stop_monitoring clears the flag (and waits in join)
StopMonitoring ==
  /\ monitoring
  /\ monitoring' = FALSE
  /\ returned' = NoResult
  /\ lastQuery' = NoQuery
  /\ UNCHANGED <<coreVars, activity_history, last_activity_time, last_active_app,
                 app_switch_count, switch_times, last_app_check_time, current_state, sampler,
                 caller, recorded, stale>>

\* a loop that does not look at the flag
LoopsRegardless(flag) == TRUE

\* `while self._monitoring`
LoopContinues(flag) == flag

\* _monitor_loop leaves its while loop
SamplerExit ==
  /\ sampler.pc = "loop"
  /\ ~LoopContinues(monitoring)
  /\ sampler' = ThreadIdle("off")
  /\ returned' = NoResult
  /\ lastQuery' = NoQuery
  /\ UNCHANGED <<coreVars, monitoring, activity_history, last_activity_time,
                 last_active_app, app_switch_count, switch_times, last_app_check_time,
                 current_state, caller, recorded, stale>>

\* the switch counter stays within the bound
MayCount(r) == r.app_switch_count <= MaxSwitches

\* one iteration of _monitor_loop with no other thread in between
MonitorTick(now, os) ==
  /\ sampler.pc = "loop"
  /\ LoopContinues(monitoring)
  /\ LET q == GetActiveApplication(os)
     IN /\ lastQuery' = [os |-> os, result |-> q]
        /\ IF q.raised
           THEN UNCHANGED <<last_active_app, app_switch_count, switch_times, last_app_check_time,
                            current_state, stale>>
           ELSE /\ MayCount(CalculateFocusLevel(now, q.app))
                /\ WriteFocus(CalculateFocusLevel(now, q.app))
                /\ stale' = FALSE
  /\ returned' = NoResult
  /\ UNCHANGED <<coreVars, monitoring, activity_history, last_activity_time, sampler,
                 caller, recorded>>

\* one iteration of _monitor_loop in one of the further threads
OtherSamplerTick(now, os) ==
  /\ other_samplers > 0
  /\ LoopContinues(monitoring)
  /\ LET q == GetActiveApplication(os)
     IN /\ lastQuery' = [os |-> os, result |-> q]
        /\ IF q.raised
           THEN UNCHANGED <<last_active_app, app_switch_count, switch_times,
                            last_app_check_time, current_state, stale>>
           ELSE /\ MayCount(CalculateFocusLevel(now, q.app))
                /\ WriteFocus(CalculateFocusLevel(now, q.app))
                /\ stale' = FALSE
  /\ returned' = NoResult
  /\ UNCHANGED <<coreVars, monitoring, activity_history, last_activity_time, sampler,
                 caller, recorded>>

\* one of the further threads leaves its while loop
OtherSamplerExit ==
  /\ other_samplers > 0
  /\ ~LoopContinues(monitoring)
  /\ other_samplers' = other_samplers - 1
  /\ returned' = NoResult
  /\ lastQuery' = NoQuery
  /\ UNCHANGED <<restVars, monitoring, activity_history, last_activity_time,
                 last_active_app, app_switch_count, switch_times, last_app_check_time,
                 current_state, sampler, caller, recorded, stale>>

\* get_current_attention with no other thread in between
GetCurrentAttention(now, os) ==
  /\ caller.pc = "idle"
  /\ LET q == GetActiveApplication(os)
     IN /\ lastQuery' = [os |-> os, result |-> q]
        /\ IF q.raised
           THEN /\ UNCHANGED <<last_active_app, app_switch_count, switch_times,
                               last_app_check_time, current_state, stale>>
                /\ returned' = [NoResult EXCEPT !.kind = "raised"]
           ELSE /\ MayCount(CalculateFocusLevel(now, q.app))
                /\ WriteFocus(CalculateFocusLevel(now, q.app))
                /\ stale' = FALSE
                /\ returned' = [kind |-> "state", stale |-> FALSE,
                                state |-> current_state']
  /\ UNCHANGED <<coreVars, monitoring, activity_history, last_activity_time, sampler,
                 caller, recorded>>

\* the sampler reads the clock and asks for the active application
\* (lines 177-181)
SamplerRead(now, os) ==
  /\ sampler.pc = "loop"
  /\ LoopContinues(monitoring)
  /\ LET q == GetActiveApplication(os)
     IN /\ lastQuery' = [os |-> os, result |-> q]
        /\ sampler' = IF q.raised THEN sampler
                      ELSE [pc |-> "compute", now |-> now, app |-> q.app,
                            early |-> FALSE]
  /\ returned' = NoResult
  /\ UNCHANGED <<coreVars, monitoring, activity_history, last_activity_time,
                 last_active_app, app_switch_count, switch_times, last_app_check_time,
                 current_state, caller, recorded, stale>>

\* the sampler computes the score and writes current_state (lines 184-234)
SamplerWrite ==
  /\ sampler.pc = "compute"
  /\ MayCount(CalculateFocusLevel(sampler.now, sampler.app))
  /\ WriteFocus(CalculateFocusLevel(sampler.now, sampler.app))
  /\ stale' = sampler.early
  /\ sampler' = ThreadIdle("loop")
  /\ returned' = NoResult
  /\ lastQuery' = NoQuery
  /\ UNCHANGED <<coreVars, monitoring, activity_history, last_activity_time, caller,
                 recorded>>

\* get_current_attention begins: calculate_focus_level reads the clock and
\* asks for the active application; what the sampler has read by now and
\* what current_state holds was read before this call
QueryBegin(now, os) ==
  /\ caller.pc = "idle"
  /\ LET q == GetActiveApplication(os)
     IN /\ lastQuery' = [os |-> os, result |-> q]
        /\ IF q.raised
           THEN /\ returned' = [NoResult EXCEPT !.kind = "raised"]
                /\ UNCHANGED <<caller, sampler, stale>>
           ELSE /\ caller' = [pc |-> "compute", now |-> now, app |-> q.app,
                              early |-> FALSE]
                /\ sampler' = [sampler EXCEPT !.early = (sampler.pc = "compute")]
                /\ stale' = TRUE
                /\ returned' = NoResult
  /\ UNCHANGED <<coreVars, monitoring, activity_history, last_activity_time,
                 last_active_app, app_switch_count, switch_times, last_app_check_time,
                 current_state, recorded>>

\* the caller computes the score and writes current_state (lines 184-234)
CallerWrite ==
  /\ caller.pc = "compute"
  /\ MayCount(CalculateFocusLevel(caller.now, caller.app))
  /\ WriteFocus(CalculateFocusLevel(caller.now, caller.app))
  /\ stale' = FALSE
  /\ caller' = [caller EXCEPT !.pc = "return"]
  /\ returned' = NoResult
  /\ lastQuery' = NoQuery
  /\ UNCHANGED <<coreVars, monitoring, activity_history, last_activity_time, sampler,
                 recorded>>

\* get_current_attention returns self.current_state (line 286)
CallerReturn ==
  /\ caller.pc = "return"
  /\ returned' = [kind |-> "state", stale |-> stale, state |-> current_state]
  /\ caller' = ThreadIdle("idle")
  /\ sampler' = [sampler EXCEPT !.early = FALSE]
  /\ stale' = FALSE
  /\ lastQuery' = NoQuery
  /\ UNCHANGED <<coreVars, monitoring, activity_history, last_activity_time,
                 last_active_app, app_switch_count, switch_times, last_app_check_time,
                 current_state, recorded>>


\* ======================================================== specifications
\* label responses: each relation names a source id, a label and target ids
RelationRecords(ids) ==
  [source : ids, label : Labels, target : {{}} \cup {{i} : i \in ids}]

RelationLists(ids) ==
  UNION {[1..n -> RelationRecords(ids)] : n \in 0..MaxRelations}

\* what the loop over a label response can leave in its three sets: any
\* three sets of ids (one relation per id and label suffices)
RawLabelSets(ids) == [ident : SUBSET ids, sim : SUBSET ids, unrel : SUBSET ids]

NoContext == [proposition |-> NoneProposition, user_attention_level |-> NoneValue,
              active_application |-> NoneApp]

NoDecision == [Raises EXCEPT !.raised = FALSE]

HarnessRest ==
  /\ relations = <<>>
  /\ attachCalls = EmptyBag
  /\ attachError = FALSE
  /\ context = NoContext
  /\ decision = NoDecision
  /\ config = DecisionConfig
  /\ baseUtilities = BaseUtilities(config)
  /\ decisionLog = <<>>
  /\ ObserversIdle

HarnessIdle == HarnessRest /\ MonitorIdle

FrameIdle ==
  /\ batch = <<>> /\ observations = {} /\ drafts = {} /\ pool = {}
  /\ identical = {} /\ similar = {} /\ different = {} /\ revised = {}
  /\ evaluated = {} /\ outcome = "none" /\ failures = 0

\* a gum instance whose update loop has been started over an existing corpus
Init ==
  /\ buffer = <<>> /\ nextLocalId = 1 /\ pushed = 0
  /\ batchTask = 1 /\ loopTask = TRUE /\ monitoring = TRUE /\ lockHolder = 0
  /\ taskPc = [t \in TaskIds |-> IF t = 1 THEN "wait" ELSE "none"]
  /\ cancelled = {} /\ stopPc = "idle"
  /\ db \in {EmptyDb, SeedDb} /\ tx = db /\ before = db /\ propCount = 0
  /\ FrameIdle
  /\ HarnessRest
  /\ MonitorFields(NotTracked, "loop")

Next ==
  \/ Push
  \/ \E t \in TaskIds : LoopIteration(t)
  \/ \E t \in TaskIds, n \in 0..MaxDrafts : ConstructPropositions(t, n)
  \/ \E t \in TaskIds, hits \in SUBSET Ids(tx.props) : SearchPropositions(t, hits)
  \/ \E t \in TaskIds, raw \in RawLabelSets(pool) : LabelPropositions(t, raw)
  \/ \E t \in TaskIds, k \in 0..MaxRevised : RevisePropositions(t, k)
  \/ \E t \in TaskIds : Commit(t)
  \/ \E t \in TaskIds : RaiseException(t)

Spec == Init /\ [][Next]_vars


\* ================================================== claims checked on Spec
\* the batch that just committed had every drafted claim labelled IDENTICAL,
\* together with a claim that was in the corpus before the batch
IdenticalOnlyBatch ==
  /\ outcome = "committed"
  /\ drafts # {} /\ drafts \subseteq identical
  /\ identical \cap Ids(before.props) # {}
  /\ similar = {} /\ different = {}

\* C1: after a committed batch whose drafted claims were all labelled
\* IDENTICAL with claims already in the corpus, the corpus holds exactly the
\* claim rows it held before the batch.
C1_IdenticalAddsNoClaimRow == IdenticalOnlyBatch => db.props = before.props

\* the observations whose provenance a SIMILAR merge has to keep
MergeProvenance ==
  UNION {RelatedObservations(before, p) : p \in similar} \cup observations

\* C2: after a committed batch with a non-empty SIMILAR set, every
\* observation linked to a claim of the set before the merge, and every
\* observation of the batch, is linked to at least one revised claim,
\* whatever list of revised claims the inference service returned.
C2_MergeKeepsProvenance ==
  (outcome = "committed" /\ similar # {}) =>
     \A o \in MergeProvenance : \E p \in revised : BagIn(<<o, p>>, db.links)

\* C3: the decision engine is invoked only on claims drafted in this batch or
\* created by this batch's SIMILAR merge, never on a claim that was in the
\* corpus before the batch nor on a claim of the IDENTICAL set.
C3_OnlyNewClaimsEvaluated ==
  /\ evaluated \subseteq drafts \cup revised
  /\ evaluated \cap Ids(before.props) = {}
  /\ evaluated \cap identical = {}

PayloadsOf(items) == [i \in DOMAIN items |-> items[i].payload]

FromBatch(item) == \E i \in DOMAIN batch : batch[i].payload = item.payload

\* C6: when _process_batch has raised, the datastore shows nothing written by
\* the batch and every item of the batch is back in the batcher exactly
\* once, in the original order.
C6_AbortIsAllOrNothing ==
  outcome = "aborted" =>
     /\ db = before
     /\ tx = before
     /\ PayloadsOf(SelectSeq(buffer, FromBatch)) = PayloadsOf(batch)

\* a batch aborted at its commit, after drafts were persisted, links
\* attached and a SIMILAR cluster merged
C6_Witness ==
  /\ outcome = "aborted"
  /\ Len(batch) >= 2
  /\ drafts # {} /\ revised # {}


\* ============================================ _filter_propositions alone
\* the ids a label response may name; the pool is any subset of them
FilterIds == {1, 2}

InitFilter ==
  /\ buffer = <<>> /\ nextLocalId = 1 /\ pushed = 0
  /\ batchTask = 0 /\ loopTask = FALSE /\ monitoring = FALSE /\ lockHolder = 0
  /\ taskPc = [t \in TaskIds |-> "none"]
  /\ cancelled = {} /\ stopPc = "idle"
  /\ db = EmptyDb /\ tx = db /\ before = db /\ propCount = 0
  /\ batch = <<>> /\ observations = {} /\ drafts = {}
  /\ pool \in SUBSET FilterIds
  /\ identical = {} /\ similar = {} /\ different = {} /\ revised = {}
  /\ evaluated = {} /\ outcome = "none" /\ failures = 0
  /\ relations \in RelationLists(FilterIds)
  /\ attachCalls = EmptyBag /\ attachError = FALSE
  /\ context = NoContext /\ decision = NoDecision
  /\ config = DecisionConfig /\ baseUtilities = BaseUtilities(config)
  /\ decisionLog = <<>>
  /\ ObserversIdle
  /\ MonitorIdle

\* one call of _filter_propositions on the pool, the labelling call
\* answering `relations`
FilterCall ==
  /\ outcome = "none"
  /\ LET buckets == FilterPropositions(pool, LabelSets(relations, Len(relations)))
     IN /\ identical' = buckets.identical
        /\ similar' = buckets.similar
        /\ different' = buckets.different
  /\ outcome' = "filtered"
  /\ UNCHANGED <<batcherVars, taskVars, storeVars, batch, observations, drafts, pool,
                 revised, evaluated, before, failures, harnessVars>>

NextFilter == FilterCall

SpecFilter == InitFilter /\ [][NextFilter]_vars

\* the response names id i, as a source or as a target, under the label
NamedUnder(i, label) ==
  \E n \in DOMAIN relations :
     /\ relations[n].label = label
     /\ i = relations[n].source \/ i \in relations[n].target

\* C5: the three buckets of _filter_propositions are pairwise disjoint
\* subsets of the pool; an id labelled IDENTICAL and SIMILAR is only in the
\* IDENTICAL bucket, an id labelled UNRELATED and also IDENTICAL or SIMILAR
\* is not in the UNRELATED bucket, an id outside the pool is in no bucket.
C5_BucketsDisjointInPool ==
  outcome = "filtered" =>
     /\ identical \cap similar = {}
     /\ identical \cap different = {}
     /\ similar \cap different = {}
     /\ identical \cup similar \cup different \subseteq pool
     /\ \A i \in FilterIds :
          /\ (NamedUnder(i, "IDENTICAL") /\ NamedUnder(i, "SIMILAR")) =>
                (i \notin similar /\ i \notin different /\ (i \in pool <=> i \in identical))
          /\ (NamedUnder(i, "UNRELATED")
                /\ (NamedUnder(i, "IDENTICAL") \/ NamedUnder(i, "SIMILAR"))) =>
                i \notin different
          /\ i \notin pool =>
                (i \notin identical /\ i \notin similar /\ i \notin different)

\* a pool member labelled IDENTICAL and SIMILAR, in a response that also
\* names an id outside the pool
C5_Witness ==
  /\ outcome = "filtered"
  /\ \E i \in pool :
        /\ NamedUnder(i, "IDENTICAL") /\ NamedUnder(i, "SIMILAR")
        /\ i \in identical
  /\ \E j \in FilterIds \ pool : \E label \in Labels : NamedUnder(j, label)


\* ======================================= the attach handlers, called again
\* a corpus of two claims and two observations, the first claim linked
AttachDb ==
  [SeedDb EXCEPT !.props = @ \cup {[id |-> 2, rg |-> 2, version |-> 1]}]

InitAttach ==
  /\ buffer = <<>> /\ nextLocalId = 1 /\ pushed = 0
  /\ batchTask = 0 /\ loopTask = FALSE /\ monitoring = FALSE /\ lockHolder = 0
  /\ taskPc = [t \in TaskIds |-> "none"]
  /\ cancelled = {} /\ stopPc = "idle"
  /\ db = AttachDb /\ tx = db /\ before = db /\ propCount = 0
  /\ FrameIdle
  /\ HarnessIdle

\* no (observation, claim) pair is attached more than MaxRepeat times
MayAttach(pairs) == \A l \in pairs : CopiesIn(l, attachCalls) < MaxRepeat

\* _handle_identical on the claims `ident` with the observations `obsIds`,
\* in one open session
HandleIdenticalCall(ident, obsIds) ==
  /\ ~attachError
  /\ MayAttach(obsIds \X ident)
  /\ LET r == HandleIdentical(tx, ident, obsIds)
     IN /\ tx' = r.store
        /\ attachError' = r.error
  /\ attachCalls' = attachCalls (+) SetToBag(obsIds \X ident)
  /\ identical' = ident
  /\ observations' = obsIds
  /\ UNCHANGED <<batcherVars, taskVars, db, propCount, batch, drafts, pool, similar,
                 different, revised, evaluated, before, outcome, failures, relations,
                 context, decision, engineVars, monitorVars, observerVars>>

\* _handle_different on the claims `diff` with the observations `obsIds`
HandleDifferentCall(diff, obsIds) ==
  /\ ~attachError
  /\ MayAttach(obsIds \X diff)
  /\ LET r == HandleDifferent(tx, diff, obsIds)
     IN /\ tx' = r.store
        /\ attachError' = r.error
        /\ evaluated' = evaluated \cup r.evaluated
  /\ attachCalls' = attachCalls (+) SetToBag(obsIds \X diff)
  /\ different' = diff
  /\ observations' = obsIds
  /\ UNCHANGED <<batcherVars, taskVars, db, propCount, batch, drafts, pool, identical,
                 similar, revised, before, outcome, failures, relations, context,
                 decision, engineVars, monitorVars, observerVars>>

NextAttach ==
  \/ \E ident \in SUBSET Ids(tx.props) \ {{}}, obsIds \in SUBSET Ids(tx.obs) \ {{}} :
        HandleIdenticalCall(ident, obsIds)
  \/ \E diff \in SUBSET Ids(tx.props) \ {{}}, obsIds \in SUBSET Ids(tx.obs) \ {{}} :
        HandleDifferentCall(diff, obsIds)

SpecAttach == InitAttach /\ [][NextAttach]_vars

\* C4: however often an (observation, claim) pair is attached, through the
\* IDENTICAL path, the UNRELATED path or both, the link table holds at most
\* one row for the pair, and no attach raises.
C4_OneLinkRowPerPair ==
  /\ \A l \in BagToSet(tx.links) : CopiesIn(l, tx.links) = 1
  /\ ~attachError

\* a pair attached through both paths, and a pair attached more than once,
\* each with its one row
C4_Witness ==
  /\ \E l \in BagToSet(attachCalls) :
        CopiesIn(l, attachCalls) >= 2 /\ CopiesIn(l, tx.links) = 1
  /\ \E p \in identical \cap different : \E o \in observations :
        CopiesIn(<<o, p>>, tx.links) = 1
  /\ \E l \in BagToSet(SeedDb.links) : BagIn(l, attachCalls)


\* ================================================== make_decision alone
Confidences ==
  {NoneValue, StrValue} \cup {Num(n) : n \in {-3, 0, 11, 999} \cup 1..10}

FocusLevels == {0, 10, 20, 29, 30, 31, 50, 59, 60, 61, 79, 80, 81, 90, 100}

Attentions ==
  {NoneValue} \cup {Num(f) : f \in FocusLevels \cup {-50, 150}}

Applications ==
  {NoneApp} \cup {App(n) : n \in {"", "unknown", "safari", "vscode", "Xcode", "terminal"}}

DecisionContexts ==
  [proposition : {NoneProposition} \cup {Proposition(c) : c \in Confidences},
   user_attention_level : Attentions,
   active_application : Applications]

InitDecide ==
  /\ buffer = <<>> /\ nextLocalId = 1 /\ pushed = 0
  /\ batchTask = 0 /\ loopTask = FALSE /\ monitoring = FALSE /\ lockHolder = 0
  /\ taskPc = [t \in TaskIds |-> "none"]
  /\ cancelled = {} /\ stopPc = "idle"
  /\ db = EmptyDb /\ tx = db /\ before = db /\ propCount = 0
  /\ FrameIdle
  /\ relations = <<>> /\ attachCalls = EmptyBag /\ attachError = FALSE
  /\ context = NoContext /\ decision = NoDecision
  /\ config \in DecisionConfigs
  /\ baseUtilities = BaseUtilities(config)
  /\ decisionLog = <<>>
  /\ ObserversIdle
  /\ MonitorIdle

\* one call of make_decision
MakeDecisionCall(ctx) ==
  /\ Len(decisionLog) < MaxCalls
  /\ context' = ctx
  /\ decision' = MakeDecision(ctx)
  /\ baseUtilities' = BaseUtilitiesAfter(ctx)
  /\ decisionLog' = Append(decisionLog, [context |-> ctx, decision |-> decision'])
  /\ outcome' = "decided"
  /\ UNCHANGED <<batcherVars, taskVars, storeVars, batch, observations, drafts, pool,
                 identical, similar, different, revised, evaluated, before, failures,
                 relations, attachCalls, attachError, config, monitorVars,
                 observerVars>>

NextDecide ==
  /\ decisionLog = <<>>
  /\ \E ctx \in DecisionContexts : MakeDecisionCall(ctx)

SpecDecide == InitDecide /\ [][NextDecide]_vars

\* the inputs on which the try block raises: a null claim, a confidence
\* that is no number, a null application name, a null focus level
InternalError(ctx) ==
  \/ ctx.proposition.kind = "none"
  \/ ctx.proposition.confidence.kind = "str"
  \/ ctx.active_application.kind = "none"
  \/ ctx.user_attention_level.kind = "none"

\* C10: for every input make_decision returns one of no_action, dialogue,
\* autonomous_action without raising, and on an internal error it returns
\* no_action with the error recorded in the metadata.
C10_DecisionNeverRaises ==
  outcome = "decided" =>
     /\ ~decision.raised
     /\ decision.action \in Range(DecisionOrder)
     /\ InternalError(context) => (decision.action = "no_action" /\ decision.error)
     /\ decision.error => decision.action = "no_action"

\* a claim whose confidence is no number, under out-of-range focus and an
\* empty application name
C10_Witness ==
  /\ outcome = "decided"
  /\ context.proposition.kind = "claim"
  /\ context.proposition.confidence.kind = "str"
  /\ context.user_attention_level = Num(150)
  /\ context.active_application = App("")
  /\ decision.action = "no_action" /\ decision.error


\* ================================== the update loop started and stopped
\* a constructed gum instance whose update loop has not been started
InitLoop ==
  /\ buffer = <<>> /\ nextLocalId = 1 /\ pushed = 0
  /\ batchTask = 0 /\ loopTask = FALSE /\ monitoring = FALSE /\ lockHolder = 0
  /\ taskPc = [t \in TaskIds |-> "none"]
  /\ cancelled = {} /\ stopPc = "idle"
  /\ db = EmptyDb /\ tx = db /\ before = db /\ propCount = 0
  /\ FrameIdle
  /\ HarnessIdle

\* the batches of this specification draft no claim
NextLoop ==
  \/ StartUpdateLoop
  \/ StopUpdateLoop
  \/ StopFinish
  \/ \E t \in TaskIds, committed \in BOOLEAN : TaskCancelled(t, committed)
  \/ Push
  \/ \E t \in TaskIds : LoopIteration(t)
  \/ \E t \in TaskIds : ConstructPropositions(t, 0)
  \/ \E t \in TaskIds : Commit(t)
  \/ \E t \in TaskIds : RaiseException(t)

SpecLoop == InitLoop /\ [][NextLoop]_vars

\* a step of a batch task: the event loop runs a task that can run, and
\* every awaited call returns
LoopTaskStep ==
  \E t \in TaskIds :
     \/ LoopIteration(t)
     \/ ConstructPropositions(t, 0)
     \/ Commit(t)
     \/ TaskCancelled(t, FALSE)

FairLoop == SpecLoop /\ WF_vars(LoopTaskStep)

\* C7: at most one batch task is alive, at most one execution of
\* _process_batch is in progress, and it holds the serialization lock.
C7_OneBatchInProgress ==
  /\ Cardinality({t \in TaskIds : taskPc[t] \in InProcess}) <= 1
  /\ \A t \in TaskIds : taskPc[t] \in InProcess => lockHolder = t
  /\ Cardinality({t \in TaskIds : taskPc[t] \notin {"none", "done"}}) <= 1

\* the second batch task, made by a start after a stop, processes a batch
\* while an observation pushed in the meantime waits in the buffer
C7_Witness ==
  /\ taskPc[1] = "done"
  /\ taskPc[2] \in InProcess /\ lockHolder = 2
  /\ buffer # <<>>
  /\ loopTask /\ batchTask = 2

\* the step in which a batch task pops a batch
PopStep(t) == taskPc[t] \in {"wait", "lock"} /\ taskPc'[t] = "construct"

\* C8: a batch is popped only when the buffer holds min_batch_size items (or
\* max_batch_size), the popped batch is the whole buffer in push order and
\* the buffer is left empty; a task waiting on a ready buffer does not keep
\* waiting.
C8_PopExactlyWhenReady ==
  /\ [][\A t \in TaskIds :
          PopStep(t) => /\ BatchIsReady(buffer)
                        /\ batch' = buffer
                        /\ buffer' = <<>>]_vars
  /\ \A t \in TaskIds :
        (taskPc[t] = "wait" /\ BatchIsReady(buffer)) ~> (taskPc[t] # "wait")

\* a batch popped at exactly min_batch_size items
C8_Witness ==
  \E t \in TaskIds :
     /\ taskPc[t] = "construct"
     /\ Len(batch) = MinBatchSize
     /\ buffer = <<>>
     /\ \A i \in DOMAIN batch : batch[i].payload = i


\* a batch task is alive and has not been sent a cancel request
Running == \E t \in TaskIds : taskPc[t] \notin {"none", "done"} /\ t \notin cancelled

\* an item leaves the buffer only into the popped batch, and a pop takes
\* every item pushed before it
OnlyPopRemoves ==
  [][/\ \A item \in Range(buffer) : item \in Range(buffer') \/ item \in Range(batch')
     /\ \A t \in TaskIds : PopStep(t) => (batch' = buffer /\ buffer' = <<>>)]_vars

\* C9 as stated: no pushed observation leaves the buffer other than by
\* pop_batch, and every pushed observation is eventually part of a popped
\* batch (whatever is buffered is eventually popped, unless the batch task
\* is stopped or was never started).
C9_EveryPushEventuallyPopped ==
  /\ OnlyPopRemoves
  /\ (buffer # <<>>) ~> (buffer = <<>> \/ ~Running)

\* C9 amended: no pushed observation leaves the buffer other than by
\* pop_batch, a pop takes every observation pushed before it, and the
\* buffered observations are eventually part of a popped batch once the
\* buffer has reached min_batch_size (or max_batch_size) while the batch
\* task is running.
C9_PoppedOnceBatchReady ==
  /\ OnlyPopRemoves
  /\ BatchIsReady(buffer) ~> (buffer = <<>> \/ ~Running)

\* a batch was popped and committed, and the one observation pushed since
\* waits below min_batch_size, the batch task running, with no push to come
C9_Witness ==
  /\ outcome = "committed"
  /\ Len(batch) >= MinBatchSize
  /\ Len(buffer) = 1 /\ ~BatchIsReady(buffer)
  /\ pushed = MaxPush
  /\ Running /\ \A t \in TaskIds : taskPc[t] \in {"wait", "none", "done"}


\* C11: the confidence make_decision uses is the claim's confidence clamped
\* into 1..10 for every supplied integer (0, negative and above 10
\* included) and is 5 only when the confidence is absent.
C11_ConfidenceClampedUnlessAbsent ==
  (outcome = "decided" /\ ~decision.error) =>
     LET c == context.proposition.confidence
     IN /\ decision.confidence \in 1..10
        /\ c.kind = "num" => decision.confidence = Max(1, Min(10, c.value))
        /\ c.kind = "none" => decision.confidence = 5


\* the place of an action in the order of interruptiveness
Rank(action) == CHOOSE i \in 1..3 : DecisionOrder[i] = action

\* the call decided, without an error, on a confidence in 1..10 and a focus
\* level in [0,1]
DecidedInRange ==
  /\ outcome = "decided" /\ ~decision.error
  /\ context.proposition.confidence.kind = "num"
  /\ context.proposition.confidence.value \in 1..10
  /\ context.user_attention_level.value \in 0..100

AtFocus(ctx, f) == [ctx EXCEPT !.user_attention_level = Num(f)]

AtConfidence(ctx, c) == [ctx EXCEPT !.proposition = Proposition(Num(c))]

\* C12: for a fixed confidence and application, the action chosen at a
\* higher focus level is not more interruptive than the action chosen at a
\* lower one.
C12_MonotonicConservatism ==
  DecidedInRange =>
     \A f2 \in FocusLevels :
        f2 >= context.user_attention_level.value =>
           Rank(MakeDecision(AtFocus(context, f2)).action) <= Rank(decision.action)

\* autonomous_action at a low focus level, and a less interruptive action
\* for the same claim and application at a higher one
C12_Witness ==
  /\ DecidedInRange
  /\ decision.action = "autonomous_action"
  /\ context.user_attention_level.value < 30
  /\ \E f2 \in FocusLevels :
        /\ f2 > context.user_attention_level.value
        /\ Rank(MakeDecision(AtFocus(context, f2)).action) < Rank(decision.action)

\* C13: for a fixed attention snapshot the chosen action is non-decreasing
\* in interruptiveness as the confidence rises from 1 to 10; at focus 0.5
\* confidence 1 yields no_action and confidence 9 autonomous_action.
C13_ConfidenceMonotonicity ==
  DecidedInRange =>
     /\ \A c2 \in 1..10 :
           c2 >= context.proposition.confidence.value =>
              Rank(MakeDecision(AtConfidence(context, c2)).action) >= Rank(decision.action)
     /\ (context.user_attention_level.value = 50
           /\ context.proposition.confidence.value = 1) => decision.action = "no_action"
     /\ (context.user_attention_level.value = 50
           /\ context.proposition.confidence.value = 9) =>
              decision.action = "autonomous_action"

\* no_action at confidence 1 and focus 0.5, and autonomous_action for the
\* same snapshot at confidence 9
C13_Witness ==
  /\ DecidedInRange
  /\ context.user_attention_level.value = 50
  /\ context.proposition.confidence.value = 1
  /\ decision.action = "no_action"
  /\ MakeDecision(AtConfidence(context, 9)).action = "autonomous_action"


\* ---------------------------------------------------------------------------
\* SpecEngine: one engine deciding up to MaxCalls times
\* ---------------------------------------------------------------------------

EngineContexts ==
  {[proposition |-> Proposition(Num(c)), user_attention_level |-> Num(f),
    active_application |-> App(a)] :
      c \in {5, 9}, f \in {20, 50, 90}, a \in {"vscode", "safari"}}
  \cup {[proposition |-> NoneProposition, user_attention_level |-> Num(50),
         active_application |-> App("safari")]}

NextEngine == \E ctx \in EngineContexts : MakeDecisionCall(ctx)

SpecEngine == InitDecide /\ [][NextEngine]_vars

\* C14: two calls of make_decision with the same confidence, focus level,
\* application and configuration return the same action and the same
\* expected utilities, whatever was decided in between.
C14_DeterministicAndStateless ==
  \A i, j \in DOMAIN decisionLog :
     decisionLog[i].context = decisionLog[j].context =>
        decisionLog[i].decision = decisionLog[j].decision

\* the same context decided before and after a call that adjusted the
\* penalties for high focus
C14_Witness ==
  /\ Len(decisionLog) = 3
  /\ decisionLog[1].context = decisionLog[3].context
  /\ decisionLog[1].context.user_attention_level = Num(50)
  /\ decisionLog[2].context = AtFocus(decisionLog[1].context, 90)
  /\ ~decisionLog[2].decision.error
  /\ decisionLog[2].decision.eu # decisionLog[1].decision.eu
  /\ decisionLog[3].decision = decisionLog[1].decision


\* ---------------------------------------------------------------------------
\* SpecAttention: the monitor's operations, each run without interruption
\* ---------------------------------------------------------------------------

\* the history stays below its capacity here (SpecActivity fills it)
NextAttention ==
  \/ sampler.pc = "off" /\ StartMonitoring
  \/ StopMonitoring
  \/ SamplerExit
  \/ /\ Len(activity_history) < HistoryMaxlen
     /\ \E now \in Times : RecordActivity(now, "keyboard")
  \/ \E now \in Times, os \in OsOutcomes : MonitorTick(now, os)
  \/ \E now \in Times, os \in OsOutcomes : GetCurrentAttention(now, os)

SpecAttention == InitLoop /\ [][NextAttention]_vars

InUnitInterval(x) == 0 <= x.num /\ x.num <= x.den

\* C17: every snapshot the estimator holds or returns has focus_level in
\* [0,1], whatever the application class, the recent activity, the idle time
\* (a last-activity time in the future included) and the switch frequency.
C17_FocusLevelInUnitInterval ==
  /\ InUnitInterval(current_state.focus_level)
  /\ returned.kind = "state" => InUnitInterval(returned.state.focus_level)

\* a snapshot returned with the last activity in the future, recent events
\* and an app-switch frequency above two per minute
C17_Witness ==
  /\ returned.kind = "state"
  /\ returned.state.idle_time_seconds < 0
  /\ returned.state.recent_activity_count > 0
  /\ returned.state.app_switch_frequency.num > 2 * returned.state.app_switch_frequency.den

\* the query did not yield a name
Failed(os) ==
  \/ os.kind # "completed"
  \/ os.returncode # 0
  \/ Strip(os.stdout) = <<>>

\* a step that ran calculate_focus_level with the application "unknown"
ScoredUnknown ==
  /\ lastQuery' # NoQuery
  /\ lastQuery'.result.app = Unknown
  /\ ~lastQuery'.result.raised

NextActivity == \E now \in Times, type \in EventTypes : RecordActivity(now, type)

SpecActivity == InitLoop /\ [][NextActivity]_vars

\* the last n elements of a sequence
LastN(seq, n) == SubSeq(seq, Len(seq) - n + 1, Len(seq))

\* C20: after any sequence of record_activity calls the history holds at
\* most its capacity, namely the most recently recorded events in recording
\* order, and last_activity_time is the timestamp of the latest event.
C20_HistoryKeepsMostRecent ==
  /\ Len(activity_history) <= HistoryMaxlen
  /\ activity_history = LastN(recorded, Min(HistoryMaxlen, Len(recorded)))
  /\ recorded # <<>> => last_activity_time = recorded[Len(recorded)].timestamp

\* more events recorded than the history holds: the first one is gone and
\* the last-activity time is that of the newest
C20_Witness ==
  /\ Len(recorded) > HistoryMaxlen
  /\ Len(activity_history) = HistoryMaxlen
  /\ recorded[1] \notin Range(activity_history)
  /\ recorded[1].timestamp > last_activity_time

\* ---------------------------------------------------------------------------
\* SpecSampler: get_current_attention while the sampler thread is running
\* ---------------------------------------------------------------------------

NextSampler ==
  \/ sampler.pc = "off" /\ StartMonitoring
  \/ StopMonitoring
  \/ SamplerExit
  \/ \E now \in Times, os \in OsOutcomes : SamplerRead(now, os)
  \/ SamplerWrite
  \/ \E now \in Times, os \in OsOutcomes : QueryBegin(now, os)
  \/ CallerWrite
  \/ CallerReturn

SpecSampler == InitLoop /\ [][NextSampler]_vars

\* C19: the snapshot get_current_attention returns was computed from inputs
\* read after the call began, also while the sampler thread is computing
\* and writing current_state.
C19_NeverServesStaleSnapshot ==
  returned.kind = "state" => ~returned.stale


\* ===================================== claims checked on Spec (continued)
\* the rows of the revised claims in the committed corpus
RevisedRows == {p \in db.props : p.id \in revised}

\* C24: after a batch with a non-empty SIMILAR set has committed, no claim of
\* the set and no link of such a claim remains in the corpus, and the revised
\* claims all have version 1 and share one revision group, which no claim
\* that existed before the batch and no other claim of the corpus carries.
C24_MergeReplacesCluster ==
  (outcome = "committed" /\ similar # {}) =>
     /\ Ids(db.props) \cap similar = {}
     /\ \A l \in BagToSet(db.links) : l[2] \notin similar
     /\ Ids(RevisedRows) = revised
     /\ \A p \in RevisedRows : p.version = 1
     /\ \A p, q \in RevisedRows : p.rg = q.rg
     /\ \A p \in RevisedRows :
           \A q \in before.props \cup (db.props \ RevisedRows) : q.rg # p.rg

\* a committed merge of a cluster holding an older claim with its links and
\* a draft, into two revised claims
C24_Witness ==
  /\ outcome = "committed"
  /\ similar \cap Ids(before.props) # {}
  /\ similar \cap drafts # {}
  /\ \E p \in similar : RelatedObservations(before, p) # {}
  /\ Cardinality(revised) = 2

\* C26: when a batch commits, every claim drafted and persisted by the batch
\* has either been deleted by the SIMILAR merge or is linked to every
\* observation of the batch, whatever the label response was.
C26_DraftsKeepProvenance ==
  outcome = "committed" =>
     \A d \in drafts :
        \/ d \notin Ids(db.props)
        \/ \A o \in observations : BagIn(<<o, d>>, db.links)

\* C29: the decision engine has evaluated only claims that persist: a batch
\* that was aborted and rolled back has produced no evaluation, and every
\* claim evaluated by a committed batch is in the corpus.
C29_DecisionsOnlyForPersistedClaims ==
  /\ outcome = "aborted" => evaluated = {}
  /\ outcome = "committed" => evaluated \subseteq Ids(db.props)

\* the Observation rows of the corpus that carry payload x
RowsOf(x) == {o \in db.obs : o.payload = x}

\* an item of the current batch that was pushed again by an earlier abort
Retried == \E i \in DOMAIN batch : batch[i].id # batch[i].payload

Kept(item) ==
  \/ \E o \in db.obs : o.payload = item.payload
  \/ \E j \in DOMAIN buffer : buffer[j].payload = item.payload

\* C28: when the batch task has finished after stop_update_loop() cancelled
\* it inside _process_batch, every observation of the batch in flight is
\* committed or back in the buffer.
C28_CancelledBatchNotLost ==
  \A t \in TaskIds :
     (taskPc[t] = "done" /\ outcome \in {"cancelled", "committed"}) =>
        \A i \in DOMAIN batch : Kept(batch[i])


\* ================================= claims checked on SpecDecide (continued)
\* the calls of the log whose adjustment returned a table
Adjusted ==
  {i \in DOMAIN decisionLog :
     /\ decisionLog[i].context.proposition.kind # "none"
     /\ decisionLog[i].context.active_application.kind # "none"
     /\ decisionLog[i].context.user_attention_level.kind = "num"}

\* the table (times ten) used by call i
UtilitiesUsed(i) ==
  AdjustUtilitiesForAttention(decisionLog[i].context.user_attention_level,
                              decisionLog[i].context.active_application).utilities

\* the focus level of call i after the focus-application bonus
EffectiveFocus(i) ==
  LET f == decisionLog[i].context.user_attention_level.value
  IN IF Lower(decisionLog[i].context.active_application.name) \in FocusApps
     THEN Min(100, f + FocusBonus) ELSE f

FalseGoalPenalties == {"u_dialogue_goal_false", "u_action_goal_false"}

\* C25: the table used by a call equals the base table except that the two
\* false-goal penalties are multiplied by the amplification factor when the
\* effective focus is above the high threshold and by the dampening factor
\* when it is below the low threshold (unchanged otherwise, a focus equal to
\* a threshold included); the stored base table is the one built at
\* construction after every call.
C25_OnlyFalseGoalPenaltiesAdjusted ==
  /\ baseUtilities = BaseUtilities(config)
  /\ \A i \in Adjusted :
        LET f1     == EffectiveFocus(i)
            factor == IF f1 > config.high_focus_threshold
                      THEN config.high_focus_penalty_multiplier
                      ELSE IF f1 < config.low_focus_threshold
                      THEN config.low_focus_penalty_reduction
                      ELSE 10
        IN /\ DOMAIN UtilitiesUsed(i) = DOMAIN baseUtilities
           /\ \A k \in DOMAIN baseUtilities :
                 UtilitiesUsed(i)[k] =
                    IF k \in FalseGoalPenalties
                    THEN BaseUtilities(config)[k] * factor
                    ELSE BaseUtilities(config)[k] * 10

\* a call in a focus application whose focus level reaches the high
\* threshold exactly through the bonus: the table used is the base table
C25_Witness ==
  /\ Adjusted # {}
  /\ \E i \in Adjusted :
        /\ decisionLog[i].context.active_application = App("vscode")
        /\ decisionLog[i].context.user_attention_level = Num(60)
        /\ EffectiveFocus(i) = config.high_focus_threshold
        /\ ~decisionLog[i].decision.error
        /\ UtilitiesUsed(i).u_action_goal_false = config.u_action_goal_false * 10


\* ---------------------------------------------------------------------------
\* SpecSwitch: focus computations with the times of the counted switches kept
\* ---------------------------------------------------------------------------
InitSwitch ==
  /\ buffer = <<>> /\ nextLocalId = 1 /\ pushed = 0
  /\ batchTask = 0 /\ loopTask = FALSE /\ monitoring = FALSE /\ lockHolder = 0
  /\ taskPc = [t \in TaskIds |-> "none"]
  /\ cancelled = {} /\ stopPc = "idle"
  /\ db = EmptyDb /\ tx = db /\ before = db /\ propCount = 0
  /\ FrameIdle
  /\ relations = <<>> /\ attachCalls = EmptyBag /\ attachError = FALSE
  /\ context = NoContext /\ decision = NoDecision
  /\ config = DecisionConfig
  /\ baseUtilities = BaseUtilities(config)
  /\ decisionLog = <<>>
  /\ ObserversIdle
  /\ MonitorFields(<<>>, "off")

NextSwitch ==
  \/ sampler.pc = "off" /\ StartMonitoring
  \/ \E now \in Times, os \in OsOutcomes : MonitorTick(now, os)
  \/ \E now \in Times, os \in OsOutcomes : GetCurrentAttention(now, os)

SpecSwitch == InitSwitch /\ [][NextSwitch]_vars

\* the last step was a focus computation that wrote current_state
JustComputed == lastQuery # NoQuery /\ ~lastQuery.result.raised

\* the clock reading of that computation
ComputedAt == current_state.idle_time_seconds + last_activity_time

\* the switches counted within the 60 seconds before that reading
SwitchesInWindow ==
  {i \in DOMAIN switch_times :
     switch_times[i] >= ComputedAt - 60 /\ switch_times[i] <= ComputedAt}

RECURSIVE Gcd(_, _)
Gcd(a, b) == IF b = 0 THEN a ELSE Gcd(b, a % b)

\* a fraction in lowest terms
Lowest(f) ==
  LET g == Gcd(f.num, f.den)
  IN IF g = 0 THEN f ELSE [num |-> f.num \div g, den |-> f.den \div g]

\* the focus level computed, and the level the computation gives without a
\* switch penalty
Computed == Lowest(current_state.focus_level)

WithoutSwitchPenalty ==
  Lowest(FocusScore(AppFocus[current_state.active_application],
                    current_state.recent_activity_count,
                    current_state.idle_time_seconds, Fraction(0, 1)))

\* C23: at every focus computation at which more than two switches were
\* counted within the preceding 60 seconds, the focus level carries the
\* switch penalty 1 - min(0.5, (switches per minute - 2)/10): it is at most
\* nine tenths of the level computed without the penalty.
C23_SwitchPenaltyFollowsRollingWindow ==
  (JustComputed /\ Cardinality(SwitchesInWindow) > SwitchThreshold) =>
     10 * Computed.num * WithoutSwitchPenalty.den
        <= 9 * WithoutSwitchPenalty.num * Computed.den


\* ---------------------------------------------------------------------------
\* SpecThreads: start_monitoring and stop_monitoring in any order, with the
\* sampler threads they leave behind
\* ---------------------------------------------------------------------------
NextThreads ==
  \/ StartMonitoring
  \/ StopMonitoring
  \/ SamplerExit
  \/ OtherSamplerExit
  \/ \E now \in Times, os \in OsOutcomes : MonitorTick(now, os)
  \/ \E now \in Times, os \in OsOutcomes : OtherSamplerTick(now, os)

SpecThreads == InitLoop /\ [][NextThreads]_vars

\* C30: at most one attention sampler thread is running at any time, under
\* any sequence of start_monitoring() and stop_monitoring() calls.
C30_AtMostOneSamplerThread == SamplersAlive <= 1


\* ---------------------------------------------------------------------------
\* SpecStop: the update loop started and stopped, with batches and the
\* sampler threads running
\* ---------------------------------------------------------------------------
\* the clock readings and query outcomes of the ticks of this specification
StopTimes == {0, 60}
StopOutcomes ==
  {os \in OsOutcomes : os.kind = "timeout" \/ (os.kind = "completed" /\ Len(os.stdout) > 1)}

NextStop ==
  \/ NextLoop
  \/ SamplerExit
  \/ OtherSamplerExit
  \/ \E now \in StopTimes, os \in StopOutcomes : MonitorTick(now, os)
  \/ \E now \in StopTimes, os \in StopOutcomes : OtherSamplerTick(now, os)

SpecStop == InitLoop /\ [][NextStop]_vars

\* stop_update_loop() has returned and start_update_loop() has not been
\* called since (or was never called)
Stopped == stopPc = "idle" /\ ~loopTask /\ batchTask = 0 /\ ~monitoring

\* a step that pops a batch or carries its processing on
PopsOrProcesses ==
  \/ batch' # batch \/ Len(buffer') < Len(buffer)
  \/ db' # db \/ tx' # tx \/ outcome' # outcome

\* a step that is a sampling tick
Ticks ==
  \/ lastQuery' # NoQuery /\ lastQuery' # lastQuery
  \/ current_state' # current_state

\* C21: once stop_update_loop() has returned, no batch is popped or
\* processed and no sampler thread performs a sampling tick.
C21_StopCancelsBothActivities ==
  [][Stopped => ~(PopsOrProcesses \/ Ticks)]_vars

\* stop_update_loop() has returned after it cancelled a batch in progress,
\* the sampler thread has ticked and is still alive (the join timed out), and
\* an observation pushed since then waits in the buffer
C21_Witness ==
  /\ Stopped
  /\ outcome = "cancelled"
  /\ buffer # <<>>
  /\ sampler.pc = "loop"
  /\ current_state.active_application # Unknown

\* ---------------------------------------------------------------------------
\* SpecDispatch: the observers' queues and _update_loop of a started system
\* ---------------------------------------------------------------------------
NextDispatch ==
  \/ \E o \in Observers : PutUpdate(o)
  \/ CreateGets
  \/ \E o \in Observers : GetCompletes(o)
  \/ DispatchDone

SpecDispatch == Init /\ [][NextDispatch]_vars

\* how often Update u was pushed to the batcher
Pushes(u) == Cardinality({i \in DOMAIN buffer : buffer[i].payload = u})

\* C27: every Update taken from an observer's queue is pushed to the batcher
\* exactly once (at the latest when the loop next waits with nothing to
\* dispatch), and no Update is pushed twice, for any number of observers and
\* any interleaving of their Updates.
C27_EveryUpdateDispatchedOnce ==
  /\ \A u \in 1..dispatcher.placed : Pushes(u) <= 1
  /\ (dispatcher.pc = "wait" /\ dispatcher.done = {}) =>
        \A u \in dispatcher.consumed : Pushes(u) = 1

====
